---- MODULE Spec2Model ----
(***************************************************************************)
(* Model of src/modbus.go: the Modbus RTU engine of mbmd.                  *)
(*   - ModbusEngine.query      one register read on the shared transport   *)
(*   - ModbusEngine.Transform  the polling loop (retry, pacing, signalling)*)
(*   - ModbusEngine.Scan       the address sweep                           *)
(*   - NewModbusEngine         the construction of the engine              *)
(*   - RTU16ToFloat64 etc.     the register decoders                       *)
(* Time is a virtual millisecond clock that only time.Sleep advances.      *)
(***************************************************************************)
EXTENDS Integers, Sequences, FiniteSets, TLC

\* ------------------------------------------------------------------------
\* Program constants
\* ------------------------------------------------------------------------
MaxRetryCount == 5
ReadInputReg == 4
ReadHoldingReg == 3

CONTROLSNIP_OK == "OK"
CONTROLSNIP_ERROR == "ERROR"

ModbusComset2400_8N1 == 1
ModbusComset9600_8N1 == 2
ModbusComset19200_8N1 == 3
ModbusComset2400_8E1 == 4
ModbusComset9600_8E1 == 5
ModbusComset19200_8E1 == 6

ConstructionTimeout == 300
SettleSleep == 100
BackoffSleep == 100
ScanTimeout == 50
ScanSleep == 40
LastScanAddress == 247
Uint8Modulus == 256

\* ------------------------------------------------------------------------
\* Bounds of the model
\* ------------------------------------------------------------------------
MaxRequests == 2
ChanCap == 1
MaxResponders == 3
MaxConcRequests == 1
MaxConcAddress == 1

\* ------------------------------------------------------------------------
\* State
\* ------------------------------------------------------------------------
VARIABLES
    SlaveId,            \* q.handler.SlaveId
    Timeout,            \* q.handler.Timeout (ms)
    requestCounter,     \* q.status: modbus request counter
    reconnectCounter,   \* q.status: modbus reconnect counter
    aborted,            \* the process was ended by log.Fatal
    inflight,           \* register reads in flight on the transport
    now,                \* virtual clock (ms)
    inputStream,        \* channel contents
    outputStream,
    controlStream,
    pc,                 \* Transform: position in the loop
    snip,               \* Transform: local snip
    previousDeviceId,   \* Transform: local previousDeviceId
    retryCount,         \* Transform: local retryCount
    enqueued,           \* number of requests sent by the producer side
    reqLog,             \* history: one record per dequeued request
    controlLog,         \* history: ControlSnips sent, in order
    outLog,             \* history: snips sent on outputStream, in order
    lastAttemptAt,      \* history: time the last Transform attempt returned
    scanPc,             \* Scan: position
    deviceId,           \* Scan: local deviceId (uint8)
    prodIdx,            \* Scan: index of the range over producers
    deviceList,         \* Scan: local deviceList
    oldtimeout,         \* Scan: local oldtimeout
    foundCount,         \* Scan: the count printed by "Found %d active devices"
    naLog,              \* history: addresses logged "n/a", in order
    probeHere,          \* history: probes returned at the current address
    succeeded,          \* history: (address, meter type) of successful probes
    preScanTimeout,     \* history: handler timeout when Scan was entered
    ctorPc,             \* NewModbusEngine: position
    rtuclient,          \* NewModbusEngine: the RTU client handler's settings
    connected,          \* the serial link of the handler is open
    decFn,              \* decoding: the transform applied last
    decIn,              \* decoding: its payload
    decScalar,          \* decoding: its scalar
    decOut              \* decoding: its result

vars == << SlaveId, Timeout, requestCounter, reconnectCounter, aborted,
           inflight, now, inputStream, outputStream, controlStream, pc, snip,
           previousDeviceId, retryCount, enqueued, reqLog, controlLog, outLog,
           lastAttemptAt, scanPc, deviceId, prodIdx, deviceList, oldtimeout,
           foundCount, naLog, probeHere, succeeded, preScanTimeout, ctorPc,
           rtuclient, connected, decFn, decIn, decScalar, decOut >>

ctorVars == << ctorPc, rtuclient, connected >>
decodeVars == << decFn, decIn, decScalar, decOut >>
auxVars == << ctorVars, decodeVars >>

engineVars == << SlaveId, Timeout, requestCounter, reconnectCounter, aborted,
                 inflight, now >>
chanVars == << inputStream, outputStream, controlStream, enqueued >>
transformVars == << pc, snip, previousDeviceId, retryCount, reqLog,
                    controlLog, outLog, lastAttemptAt >>
scanVars == << scanPc, deviceId, prodIdx, deviceList, oldtimeout, foundCount,
               naLog, probeHere, succeeded, preScanTimeout >>

\* ------------------------------------------------------------------------
\* Data
\* ------------------------------------------------------------------------
Devices == {1, 2}

\* A float value is kept exactly, as (-1)^neg * (num / den) * 2^exp with num
\* and den odd and coprime; zero is 0/1, an infinity is 1/0, NaN is 0/0.
\* A float64 quotient is kept as the exact quotient that the hardware then
\* rounds to the nearest double.
RECURSIVE GCD(_, _)
GCD(a, b) == IF b = 0 THEN a ELSE GCD(b, a % b)

RECURSIVE TwoAdic(_)
TwoAdic(n) == IF n = 0 \/ n % 2 = 1 THEN 0 ELSE 1 + TwoAdic(n \div 2)

MkFloat(neg, num, den, exp) ==
    IF den = 0
    THEN [ neg |-> (num # 0 /\ neg), num |-> IF num = 0 THEN 0 ELSE 1,
           den |-> 0, exp |-> 0 ]
    ELSE IF num = 0
    THEN [ neg |-> neg, num |-> 0, den |-> 1, exp |-> 0 ]
    ELSE LET kn == TwoAdic(num)
             kd == TwoAdic(den)
             n1 == num \div (2 ^ kn)
             d1 == den \div (2 ^ kd)
             g == GCD(n1, d1)
         IN [ neg |-> neg, num |-> n1 \div g, den |-> d1 \div g,
              exp |-> exp + kn - kd ]

FZero == MkFloat(FALSE, 0, 1, 0)

\* float64(u) of an unsigned integer
Float64FromUint(u) == MkFloat(FALSE, u, 1, 0)

\* a / b on float64
FDiv(a, b) ==
    IF a.den = 0 \/ b.den = 0
    THEN IF (a.den = 0 /\ a.num = 0) \/ (b.den = 0 /\ b.num = 0)
              \/ (a.den = 0 /\ b.den = 0)
         THEN MkFloat(FALSE, 0, 0, 0)
         ELSE IF a.den = 0 THEN MkFloat(a.neg # b.neg, 1, 0, 0)
         ELSE MkFloat(a.neg # b.neg, 0, 1, 0)
    ELSE IF b.num = 0
    THEN MkFloat(a.neg # b.neg, IF a.num = 0 THEN 0 ELSE 1, 0, 0)
    ELSE MkFloat(a.neg # b.neg, a.num * b.den, a.den * b.num, a.exp - b.exp)

\* binary.BigEndian.Uint16(b): b[1] | b[0]<<8
BigEndianUint16_Little(b) == b[1] + b[2] * (2 ^ 8)
BigEndianUint16(b) == b[2] + b[1] * (2 ^ 8)

\* binary.BigEndian.Uint32(b): b[3] | b[2]<<8 | b[1]<<16 | b[0]<<24, kept
\* as its two 16 bit halves
BigEndianUint32(b) ==
    [ hi |-> b[2] + b[1] * (2 ^ 8), lo |-> b[4] + b[3] * (2 ^ 8) ]

\* float64(u) of a uint32 below 2^31
Float64FromUint32(w) == Float64FromUint(w.hi * (2 ^ 16) + w.lo)

\* math.Float32frombits(bits), widened to float64 (the widening is exact)
Float32frombits(w) ==
    LET sign == w.hi \div (2 ^ 15)
        e == (w.hi % (2 ^ 15)) \div (2 ^ 7)
        mant == (w.hi % (2 ^ 7)) * (2 ^ 16) + w.lo
    IN IF e = 255
       THEN MkFloat(sign = 1, IF mant = 0 THEN 1 ELSE 0, 0, 0)
       ELSE IF e = 0
       THEN MkFloat(sign = 1, mant, 1, -149)
       ELSE MkFloat(sign = 1, (2 ^ 23) + mant, 1, e - 150)

\* RTU32ToFloat64 converts 32 bit readings
RTU32ToFloat64(b) == Float32frombits(BigEndianUint32(b))

\* RTU16ToFloat64 converts 16 bit readings
RTU16ToFloat64(b) == Float64FromUint(BigEndianUint16(b))

rtuScaledInt32ToFloat64(b, scalar) ==
    FDiv(Float64FromUint32(BigEndianUint32(b)), scalar)

rtuScaledInt16ToFloat64(b, scalar) ==
    FDiv(Float64FromUint(BigEndianUint16(b)), scalar)

\* the RTUTransform values: the two plain functions and the closures made by
\* MakeRTU32ScaledIntToFloat64 and MakeRTU16ScaledIntToFloat64
RTUTransform(fn, scalar) == [ fn |-> fn, scalar |-> scalar ]
MakeRTU32ScaledIntToFloat64(scalar) ==
    RTUTransform("rtuScaledInt32ToFloat64", scalar)
MakeRTU16ScaledIntToFloat64(scalar) ==
    RTUTransform("rtuScaledInt16ToFloat64", scalar)

\* t(b) for an RTUTransform t
CallTransform(t, b) ==
    CASE t.fn = "RTU16ToFloat64" -> RTU16ToFloat64(b)
      [] t.fn = "RTU32ToFloat64" -> RTU32ToFloat64(b)
      [] t.fn = "rtuScaledInt16ToFloat64" ->
             rtuScaledInt16ToFloat64(b, t.scalar)
      [] t.fn = "rtuScaledInt32ToFloat64" ->
             rtuScaledInt32ToFloat64(b, t.scalar)

\* snip.Transform(reading): the decode stored on the request
ApplyTransform_AlwaysRaw16(s, b) == RTU16ToFloat64(b)
ApplyTransform(s, b) == CallTransform(s.Transform, b)

QuerySnip(dev, fc, len) ==
    [ DeviceId |-> dev, FuncCode |-> fc, OpCode |-> 0, ReadLen |-> len,
      Transform |-> RTUTransform("RTU16ToFloat64", FZero), Value |-> FZero,
      ReadTimestamp |-> 0 ]

\* Requests the producer side may put on inputStream: well-formed reads of
\* both function codes (a plain 16 bit reading of device 1, a reading of
\* device 2 scaled by 10), and the two malformed shapes query rejects.
WellFormedSnips ==
    { QuerySnip(1, ReadInputReg, 1),
      [ QuerySnip(2, ReadHoldingReg, 1) EXCEPT
          !.Transform = MakeRTU16ScaledIntToFloat64(Float64FromUint(10)) ] }
MalformedSnips == { QuerySnip(1, ReadInputReg, 0), QuerySnip(2, 6, 1) }
QuerySnips == WellFormedSnips \cup MalformedSnips

NoSnip == QuerySnip(0, 0, 0)

\* the RTU client handler as NewModbusEngine leaves it when called with
\* ModbusComset9600_8N1 and verbose = false
NoHandler ==
    [ Address |-> "/dev/ttyUSB0", BaudRate |-> 9600, DataBits |-> 8,
      Parity |-> "N", StopBits |-> 1, Logger |-> FALSE ]

\* Register payloads a successful read may return
Payloads == { << 4, 210 >>, << 0, 7 >> }

ControlSnip(type, dev) == [ Type |-> type, DeviceId |-> dev ]

\* ------------------------------------------------------------------------
\* ModbusEngine.query
\* ------------------------------------------------------------------------
\* The checks of query that end the process (log.Fatalf)
queryFatal_LenOnly(s) == s.ReadLen <= 0
queryFatal(s) ==
    \/ s.ReadLen <= 0
    \/ s.FuncCode \notin { ReadInputReg, ReadHoldingReg }

\* q.status.IncreaseModbusRequestCounter()
IncreaseModbusRequestCounter_Skipped(c) == c
IncreaseModbusRequestCounter(c) == c + 1

\* entry of query: count the request, update the slave id in the handler
queryCall(caller, s) ==
    /\ requestCounter' = IncreaseModbusRequestCounter(requestCounter)
    /\ SlaveId' = s.DeviceId

\* rest of query up to the point where the register read is on the
\* transport: validate, dispatch by function code. The read goes out with
\* the slave id and timeout the handler holds at that moment.
queryDispatch_Exclusive(caller, s) ==
    /\ inflight = {}
    /\ IF queryFatal(s)
       THEN aborted' = TRUE /\ inflight' = inflight
       ELSE /\ aborted' = aborted
            /\ inflight' = { [ caller |-> caller, slave |-> SlaveId,
                               func |-> s.FuncCode, timeout |-> Timeout ] }
queryDispatch(caller, s) ==
    IF queryFatal(s)
    THEN /\ aborted' = TRUE
         /\ inflight' = inflight
    ELSE /\ aborted' = aborted
         /\ inflight' = inflight \cup
               { [ caller |-> caller, slave |-> SlaveId,
                   func |-> s.FuncCode, timeout |-> Timeout ] }

\* the register read of this caller returns (payload or error)
queryReturn(caller) ==
    inflight' = { r \in inflight : r.caller # caller }

\* ------------------------------------------------------------------------
\* ModbusEngine.Transform
\* ------------------------------------------------------------------------
CurReq == Len(reqLog)

\* if previousDeviceId != snip.DeviceId
NeedsSettle_Never(prev, s) == FALSE
NeedsSettle(prev, s) == prev # s.DeviceId

\* the loop test retryCount < MaxRetryCount
RetryAllowed_OneMore(rc) == rc <= MaxRetryCount
RetryAllowed(rc) == rc < MaxRetryCount

\* where control goes after a successful read was decoded and stamped:
\* outputStream <- snip comes first
AfterDecode_SkipsForward == "signal_ok"
AfterDecode == "forward"

\* where control goes after the OK signal: goto PROCESS_READINGS
AfterSuccess_NoGoto == "retry"
AfterSuccess_Return == "return"
AfterSuccess == "PROCESS_READINGS"

\* where control goes after a failed attempt: retryCount++, the loop test,
\* and the error signal once the loop is left
AfterFailure_SkipsSignal(rc) ==
    IF RetryAllowed(rc) THEN "retry" ELSE "PROCESS_READINGS"
AfterFailure(rc) == IF RetryAllowed(rc) THEN "retry" ELSE "signal_error"

\* successSnip := ControlSnip{Type: CONTROLSNIP_OK, ..., DeviceId: ...}
successSnip(s) == ControlSnip(CONTROLSNIP_OK, s.DeviceId)

\* errorSnip := ControlSnip{Type: CONTROLSNIP_ERROR, ..., DeviceId: ...}
errorSnip_NoDevice(s) == ControlSnip(CONTROLSNIP_ERROR, 0)
errorSnip(s) == ControlSnip(CONTROLSNIP_ERROR, s.DeviceId)

\* snip := <-inputStream
TransformDequeue ==
    /\ ~aborted
    /\ pc = "PROCESS_READINGS"
    /\ Len(inputStream) > 0
    /\ snip' = Head(inputStream)
    /\ inputStream' = Tail(inputStream)
    /\ reqLog' = Append(reqLog,
           [ DeviceId |-> Head(inputStream).DeviceId,
             snip |-> Head(inputStream),
             dequeuedAt |-> now,
             rc0 |-> reconnectCounter, rcEnd |-> reconnectCounter,
             rq0 |-> requestCounter, rqEnd |-> requestCounter,
             attempts |-> 0, reads |-> 0, succ |-> 0, payload |-> << >>,
             settle |-> 0,
             firstAttemptAt |-> -1, prevAttemptAt |-> lastAttemptAt,
             lastAttemptAt |-> -1, done |-> FALSE ])
    /\ pc' = "pace"
    /\ UNCHANGED << auxVars, engineVars, outputStream, controlStream, enqueued,
                    previousDeviceId, retryCount, controlLog, outLog,
                    lastAttemptAt, scanVars >>

\* the pause between different devices, previousDeviceId = snip.DeviceId,
\* and the initialisation of the retry loop
TransformPace ==
    /\ ~aborted
    /\ pc = "pace"
    /\ LET d == IF NeedsSettle(previousDeviceId, snip) THEN SettleSleep
                ELSE 0
       IN /\ now' = now + d
          /\ reqLog' = [ reqLog EXCEPT ![CurReq].settle = d ]
    /\ previousDeviceId' = snip.DeviceId
    /\ retryCount' = 0
    /\ pc' = "retry"
    /\ UNCHANGED << auxVars,
                    SlaveId, Timeout, requestCounter, reconnectCounter,
                    aborted, inflight, chanVars, snip, controlLog, outLog,
                    lastAttemptAt, scanVars >>

\* reading, err := q.query(snip): the call and the entry of query
TransformQuery ==
    /\ ~aborted
    /\ pc = "retry"
    /\ RetryAllowed(retryCount)
    /\ queryCall("Transform", snip)
    /\ reqLog' = [ reqLog EXCEPT
                     ![CurReq].attempts = @ + 1,
                     ![CurReq].firstAttemptAt = IF @ = -1 THEN now ELSE @ ]
    /\ pc' = "dispatch"
    /\ UNCHANGED << auxVars, Timeout, reconnectCounter, aborted, inflight,
                    now, chanVars, snip, previousDeviceId, retryCount,
                    controlLog, outLog, lastAttemptAt, scanVars >>

\* query(snip): the validation and the dispatched register read
TransformDispatch ==
    /\ ~aborted
    /\ pc = "dispatch"
    /\ queryDispatch("Transform", snip)
    /\ reqLog' = [ reqLog EXCEPT
                     ![CurReq].reads = IF queryFatal(snip) THEN @ ELSE @ + 1 ]
    /\ pc' = IF queryFatal(snip) THEN "fatal" ELSE "query"
    /\ UNCHANGED << auxVars, SlaveId, Timeout, requestCounter,
                    reconnectCounter, now, chanVars, snip, previousDeviceId,
                    retryCount, controlLog, outLog, lastAttemptAt, scanVars >>

\* the read returned err == nil: decode and stamp the snip
TransformReadOk(reading) ==
    /\ ~aborted
    /\ pc = "query"
    /\ queryReturn("Transform")
    /\ snip' = [ snip EXCEPT !.Value = ApplyTransform(snip, reading),
                             !.ReadTimestamp = now ]
    /\ reqLog' = [ reqLog EXCEPT
                     ![CurReq].succ = IF @ = 0 THEN retryCount + 1 ELSE @,
                     ![CurReq].payload = IF @ = << >> THEN reading ELSE @,
                     ![CurReq].lastAttemptAt = now ]
    /\ lastAttemptAt' = now
    /\ pc' = AfterDecode
    /\ UNCHANGED << auxVars,
                    SlaveId, Timeout, requestCounter, reconnectCounter,
                    aborted, now, chanVars, previousDeviceId, retryCount,
                    controlLog, outLog, scanVars >>

\* the read returned an error
TransformReadErr ==
    /\ ~aborted
    /\ pc = "query"
    /\ queryReturn("Transform")
    /\ reqLog' = [ reqLog EXCEPT ![CurReq].lastAttemptAt = now ]
    /\ lastAttemptAt' = now
    /\ pc' = "backoff"
    /\ UNCHANGED << auxVars,
                    SlaveId, Timeout, requestCounter, reconnectCounter,
                    aborted, now, chanVars, snip, previousDeviceId,
                    retryCount, controlLog, outLog, scanVars >>

\* outputStream <- snip
TransformForward ==
    /\ ~aborted
    /\ pc = "forward"
    /\ Len(outputStream) < ChanCap
    /\ outputStream' = Append(outputStream, snip)
    /\ outLog' = Append(outLog, [ req |-> CurReq, snip |-> snip ])
    /\ pc' = "signal_ok"
    /\ UNCHANGED << auxVars,
                    engineVars, inputStream, controlStream, enqueued, snip,
                    previousDeviceId, retryCount, reqLog, controlLog,
                    lastAttemptAt, scanVars >>

\* controlStream <- successSnip; goto PROCESS_READINGS
TransformSignalOk ==
    /\ ~aborted
    /\ pc = "signal_ok"
    /\ Len(controlStream) < ChanCap
    /\ controlStream' = Append(controlStream, successSnip(snip))
    /\ controlLog' = Append(controlLog,
           [ req |-> CurReq, snip |-> successSnip(snip) ])
    /\ reqLog' = [ reqLog EXCEPT ![CurReq].done = TRUE,
                                 ![CurReq].rcEnd = reconnectCounter,
                                 ![CurReq].rqEnd = requestCounter ]
    /\ pc' = AfterSuccess
    /\ UNCHANGED << auxVars,
                    engineVars, inputStream, outputStream, enqueued, snip,
                    previousDeviceId, retryCount, outLog, lastAttemptAt,
                    scanVars >>

\* the else branch: count a reconnect, sleep, retryCount++, loop test
TransformBackoff ==
    /\ ~aborted
    /\ pc = "backoff"
    /\ reconnectCounter' = reconnectCounter + 1
    /\ now' = now + BackoffSleep
    /\ retryCount' = retryCount + 1
    /\ pc' = AfterFailure(retryCount + 1)
    /\ UNCHANGED << auxVars,
                    SlaveId, Timeout, requestCounter, aborted, inflight,
                    chanVars, snip, previousDeviceId, reqLog, controlLog,
                    outLog, lastAttemptAt, scanVars >>

\* controlStream <- errorSnip, then the next iteration of the outer loop
TransformSignalError ==
    /\ ~aborted
    /\ pc = "signal_error"
    /\ Len(controlStream) < ChanCap
    /\ controlStream' = Append(controlStream, errorSnip(snip))
    /\ controlLog' = Append(controlLog,
           [ req |-> CurReq, snip |-> errorSnip(snip) ])
    /\ reqLog' = [ reqLog EXCEPT ![CurReq].done = TRUE,
                                 ![CurReq].rcEnd = reconnectCounter,
                                 ![CurReq].rqEnd = requestCounter ]
    /\ pc' = "PROCESS_READINGS"
    /\ UNCHANGED << auxVars,
                    engineVars, inputStream, outputStream, enqueued, snip,
                    previousDeviceId, retryCount, outLog, lastAttemptAt,
                    scanVars >>

\* ------------------------------------------------------------------------
\* The other ends of Transform's three channels
\* ------------------------------------------------------------------------
Enqueue(s) ==
    /\ ~aborted
    /\ enqueued < MaxRequests
    /\ Len(inputStream) < ChanCap
    /\ inputStream' = Append(inputStream, s)
    /\ enqueued' = enqueued + 1
    /\ UNCHANGED << auxVars,
                    engineVars, outputStream, controlStream, transformVars,
                    scanVars >>

TakeOutput ==
    /\ ~aborted
    /\ Len(outputStream) > 0
    /\ outputStream' = Tail(outputStream)
    /\ UNCHANGED << auxVars, engineVars, inputStream, controlStream, enqueued,
                    transformVars, scanVars >>

TakeControl ==
    /\ ~aborted
    /\ Len(controlStream) > 0
    /\ controlStream' = Tail(controlStream)
    /\ UNCHANGED << auxVars, engineVars, inputStream, outputStream, enqueued,
                    transformVars, scanVars >>

\* ------------------------------------------------------------------------
\* Specification of the polling phase
\* ------------------------------------------------------------------------
Init ==
    /\ SlaveId = 0
    /\ Timeout = ConstructionTimeout
    /\ requestCounter = 0
    /\ reconnectCounter = 0
    /\ aborted = FALSE
    /\ inflight = {}
    /\ now = 0
    /\ inputStream = << >>
    /\ outputStream = << >>
    /\ controlStream = << >>
    /\ pc = "PROCESS_READINGS"
    /\ snip = NoSnip
    /\ previousDeviceId = 0
    /\ retryCount = 0
    /\ enqueued = 0
    /\ reqLog = << >>
    /\ controlLog = << >>
    /\ outLog = << >>
    /\ lastAttemptAt = 0
    /\ scanPc = "idle"
    /\ deviceId = 0
    /\ prodIdx = 0
    /\ deviceList = << >>
    /\ oldtimeout = 0
    /\ foundCount = -1
    /\ naLog = << >>
    /\ probeHere = << >>
    /\ succeeded = {}
    /\ preScanTimeout = 0
    /\ ctorPc = "returned"
    /\ rtuclient = NoHandler
    /\ connected = FALSE
    /\ decFn = "none"
    /\ decIn = << >>
    /\ decScalar = 0
    /\ decOut = FZero

Next ==
    \/ TransformDequeue
    \/ TransformPace
    \/ TransformQuery
    \/ TransformDispatch
    \/ \E reading \in Payloads : TransformReadOk(reading)
    \/ TransformReadErr
    \/ TransformForward
    \/ TransformSignalOk
    \/ TransformBackoff
    \/ TransformSignalError
    \/ \E s \in QuerySnips : Enqueue(s)
    \/ TakeOutput
    \/ TakeControl

Spec == Init /\ [][Next]_vars

\* the steps of the goroutine that runs Transform
TransformStep ==
    \/ TransformDequeue
    \/ TransformPace
    \/ TransformQuery
    \/ TransformDispatch
    \/ \E reading \in Payloads : TransformReadOk(reading)
    \/ TransformReadErr
    \/ TransformForward
    \/ TransformSignalOk
    \/ TransformBackoff
    \/ TransformSignalError

\* Transform under the scheduling the runtime gives its goroutine: a step
\* that stays possible is taken; the sleeps end, and a register read
\* returns, with data or with an error, once rtuclient.Timeout has passed.
\* Nothing is assumed of the other ends of the channels. The requests are
\* a well-formed one and one that query rejects.
LiveSnips == { QuerySnip(1, ReadInputReg, 1), QuerySnip(2, ReadHoldingReg, 0) }

LiveNext ==
    \/ TransformStep
    \/ \E s \in LiveSnips : Enqueue(s)
    \/ TakeOutput
    \/ TakeControl

LiveSpec == Init /\ [][LiveNext]_vars /\ WF_vars(TransformStep)

\* ------------------------------------------------------------------------
\* ModbusEngine.Scan
\* ------------------------------------------------------------------------
\* producers := []Producer{NewSDMProducer(), NewJanitzaProducer(),
\* NewDZGProducer()}, each named by its meter type
producers == << "SDM", "JANITZA", "DZG" >>

\* producer.GetMeterType()
GetMeterType(p) == producers[p]

\* producer.Probe(deviceId): a well-formed read addressed to deviceId
Probe(p, dev) ==
    QuerySnip(dev, IF p = 1 THEN ReadInputReg ELSE ReadHoldingReg, 1)

\* Addresses of the simulated bus at which a probe may be answered; a probe
\* of any other address times out.
CandidateAddrs == << 1, 42, 247, 5, 100 >>
Responders ==
    { CandidateAddrs[i] : i \in 1 .. (IF MaxResponders < Len(CandidateAddrs)
                                      THEN MaxResponders
                                      ELSE Len(CandidateAddrs)) }

\* deviceId++ on a uint8
IncDeviceId(d) == (d + 1) % Uint8Modulus

\* the loop test deviceId <= 247
ScanInRange_AllBytes(d) == d <= Uint8Modulus - 1
ScanInRange(d) == d <= LastScanAddress

\* dev := DeviceInfo{DeviceId: deviceId, MeterType: producer.GetMeterType()}
DeviceInfo_FirstType(d, p) ==
    [ DeviceId |-> d, MeterType |-> GetMeterType(1) ]
DeviceInfo(d, p) == [ DeviceId |-> d, MeterType |-> GetMeterType(p) ]

\* continue SCAN: leave the range over producers, deviceId++
continueSCAN_Inner ==
    /\ deviceId' = deviceId
    /\ prodIdx' = prodIdx + 1
    /\ scanPc' = "range"
continueSCAN ==
    /\ deviceId' = IncDeviceId(deviceId)
    /\ prodIdx' = prodIdx
    /\ scanPc' = "SCAN"

\* q.handler.Timeout = oldtimeout
RestoredTimeout_Kept == Timeout
RestoredTimeout == oldtimeout

\* entry of Scan: the locals, the timeout override, the producer list and
\* the init statement of the address loop
ScanStart ==
    /\ ~aborted
    /\ scanPc = "idle"
    /\ deviceList' = << >>
    /\ oldtimeout' = Timeout
    /\ preScanTimeout' = Timeout
    /\ Timeout' = ScanTimeout
    /\ deviceId' = 1
    /\ scanPc' = "SCAN"
    /\ UNCHANGED << auxVars,
                    SlaveId, requestCounter, reconnectCounter, aborted,
                    inflight, now, chanVars, transformVars, prodIdx,
                    foundCount, naLog, probeHere, succeeded >>

\* loop test true: the recovery sleep, then the range over producers starts
ScanNextAddress ==
    /\ ~aborted
    /\ scanPc = "SCAN"
    /\ ScanInRange(deviceId)
    /\ now' = now + ScanSleep
    /\ prodIdx' = 1
    /\ probeHere' = << >>
    /\ scanPc' = "range"
    /\ UNCHANGED << auxVars,
                    SlaveId, Timeout, requestCounter, reconnectCounter,
                    aborted, inflight, chanVars, transformVars, deviceId,
                    deviceList, oldtimeout, foundCount, naLog, succeeded,
                    preScanTimeout >>

\* snip := producer.Probe(deviceId); value, err := q.query(snip): the call
\* and the entry of query
ScanProbe ==
    /\ ~aborted
    /\ scanPc = "range"
    /\ prodIdx <= Len(producers)
    /\ queryCall("Scan", Probe(prodIdx, deviceId))
    /\ scanPc' = "dispatch"
    /\ UNCHANGED << auxVars, Timeout, reconnectCounter, aborted, inflight,
                    now, chanVars, transformVars, deviceId, prodIdx,
                    deviceList, oldtimeout, foundCount, naLog, probeHere,
                    succeeded, preScanTimeout >>

\* query(snip): the validation and the dispatched register read
ScanDispatch ==
    /\ ~aborted
    /\ scanPc = "dispatch"
    /\ queryDispatch("Scan", Probe(prodIdx, deviceId))
    /\ scanPc' = IF queryFatal(Probe(prodIdx, deviceId)) THEN "fatal"
                 ELSE "query"
    /\ UNCHANGED << auxVars, SlaveId, Timeout, requestCounter,
                    reconnectCounter, now, chanVars, transformVars, deviceId,
                    prodIdx, deviceList, oldtimeout, foundCount, naLog,
                    probeHere, succeeded, preScanTimeout >>

\* err == nil: record the device and continue SCAN (deviceId++)
ScanProbeOk ==
    /\ ~aborted
    /\ scanPc = "query"
    /\ deviceId \in Responders
    /\ queryReturn("Scan")
    /\ deviceList' = Append(deviceList, DeviceInfo(deviceId, prodIdx))
    /\ probeHere' = Append(probeHere, [ producer |-> prodIdx, ok |-> TRUE ])
    /\ succeeded' = succeeded \cup
           { [ DeviceId |-> r.slave, MeterType |-> producers[prodIdx] ] :
               r \in { x \in inflight : x.caller = "Scan" } }
    /\ continueSCAN
    /\ UNCHANGED << auxVars,
                    SlaveId, Timeout, requestCounter, reconnectCounter,
                    aborted, now, chanVars, transformVars, oldtimeout,
                    foundCount, naLog, preScanTimeout >>

\* err != nil: the next producer of the range
ScanProbeErr ==
    /\ ~aborted
    /\ scanPc = "query"
    /\ queryReturn("Scan")
    /\ probeHere' = Append(probeHere, [ producer |-> prodIdx, ok |-> FALSE ])
    /\ prodIdx' = prodIdx + 1
    /\ scanPc' = "range"
    /\ UNCHANGED << auxVars,
                    SlaveId, Timeout, requestCounter, reconnectCounter,
                    aborted, now, chanVars, transformVars, deviceId,
                    deviceList, oldtimeout, foundCount, naLog, succeeded,
                    preScanTimeout >>

\* the range is exhausted: log "n/a", then deviceId++
ScanNotAvailable ==
    /\ ~aborted
    /\ scanPc = "range"
    /\ prodIdx > Len(producers)
    /\ naLog' = Append(naLog, deviceId)
    /\ deviceId' = IncDeviceId(deviceId)
    /\ scanPc' = "SCAN"
    /\ UNCHANGED << auxVars,
                    engineVars, chanVars, transformVars, prodIdx, deviceList,
                    oldtimeout, foundCount, probeHere, succeeded,
                    preScanTimeout >>

\* loop test false: restore the timeout and print the report
ScanReport ==
    /\ ~aborted
    /\ scanPc = "SCAN"
    /\ ~ScanInRange(deviceId)
    /\ Timeout' = RestoredTimeout
    /\ foundCount' = Len(deviceList)
    /\ scanPc' = "done"
    /\ UNCHANGED << auxVars,
                    SlaveId, requestCounter, reconnectCounter, aborted,
                    inflight, now, chanVars, transformVars, deviceId, prodIdx,
                    deviceList, oldtimeout, naLog, probeHere, succeeded,
                    preScanTimeout >>

\* ------------------------------------------------------------------------
\* Specification of the scan phase
\* ------------------------------------------------------------------------
ScanNext ==
    \/ ScanStart
    \/ ScanNextAddress
    \/ ScanProbe
    \/ ScanDispatch
    \/ ScanProbeOk
    \/ ScanProbeErr
    \/ ScanNotAvailable
    \/ ScanReport

ScanSpec == Init /\ [][ScanNext]_vars

\* Scan under the scheduling the runtime gives its caller: the sleeps end and
\* a probe returns, with data or with an error, once the timeout has passed
ScanLiveSpec == Init /\ [][ScanNext]_vars /\ WF_vars(ScanNext)

\* ------------------------------------------------------------------------
\* Properties of Transform (checked under Spec)
\* ------------------------------------------------------------------------
ControlOf(i) == { j \in DOMAIN controlLog : controlLog[j].req = i }
ResultsOf(i) == { j \in DOMAIN outLog : outLog[j].req = i }

\* C1: a request whose query first succeeds on attempt k (1 <= k <=
\* MaxRetryCount) gets exactly one ControlSnip, an OK for its device, exactly
\* one result on the output stream, no ERROR, and the reconnect counter rises
\* by exactly k - 1 between its dequeue and its ControlSnip.
C1_SuccessOnAttemptK ==
    \A i \in DOMAIN reqLog :
        (reqLog[i].done /\ reqLog[i].succ >= 1) =>
            /\ reqLog[i].succ <= MaxRetryCount
            /\ Cardinality(ControlOf(i)) = 1
            /\ \A j \in ControlOf(i) :
                   controlLog[j].snip =
                       ControlSnip(CONTROLSNIP_OK, reqLog[i].DeviceId)
            /\ Cardinality(ResultsOf(i)) = 1
            /\ reqLog[i].rcEnd - reqLog[i].rc0 = reqLog[i].succ - 1
            /\ i < Len(reqLog) => reqLog[i + 1].rc0 = reqLog[i].rcEnd

C1_Witness ==
    \E i \in DOMAIN reqLog :
        /\ reqLog[i].done
        /\ reqLog[i].succ = MaxRetryCount
        /\ reqLog[i].rcEnd - reqLog[i].rc0 = MaxRetryCount - 1

\* C2: a request whose query fails on all MaxRetryCount attempts gets exactly
\* one ControlSnip, an ERROR carrying its device id, nothing on the output
\* stream, and the reconnect counter rises by exactly MaxRetryCount between
\* its dequeue and its ControlSnip.
C2_FailureOnAllAttempts ==
    \A i \in DOMAIN reqLog :
        (reqLog[i].done /\ reqLog[i].succ = 0) =>
            /\ reqLog[i].attempts = MaxRetryCount
            /\ Cardinality(ControlOf(i)) = 1
            /\ \A j \in ControlOf(i) :
                   controlLog[j].snip =
                       ControlSnip(CONTROLSNIP_ERROR, reqLog[i].DeviceId)
            /\ ResultsOf(i) = {}
            /\ reqLog[i].rcEnd - reqLog[i].rc0 = MaxRetryCount
            /\ i < Len(reqLog) => reqLog[i + 1].rc0 = reqLog[i].rcEnd

C2_Witness ==
    \E i \in DOMAIN reqLog :
        /\ reqLog[i].done
        /\ reqLog[i].succ = 0
        /\ reqLog[i].DeviceId = 2
        /\ controlLog[i].snip.Type = CONTROLSNIP_ERROR

\* C3: the i-th ControlSnip sent carries the device id of the i-th dequeued
\* request, and there is exactly one ControlSnip per served request: never
\* more ControlSnips than requests, and none missing whenever the loop is
\* back at the dequeue.
C3_ControlOrder ==
    /\ Len(controlLog) <= Len(reqLog)
    /\ \A j \in DOMAIN controlLog :
           /\ controlLog[j].snip.DeviceId = reqLog[j].DeviceId
           /\ controlLog[j].req = j
    /\ (pc = "PROCESS_READINGS" /\ ~aborted) => Len(controlLog) = Len(reqLog)

C3_Witness ==
    /\ Len(controlLog) = 2
    /\ controlLog[1].snip = ControlSnip(CONTROLSNIP_ERROR, 2)
    /\ controlLog[2].snip = ControlSnip(CONTROLSNIP_OK, 1)

\* C4: when a dequeued request addresses another device than the previously
\* dequeued one, a settle sleep of 100 ms lies between its dequeue and its
\* first query attempt, so at least 100 ms separate the previous request's
\* last attempt from this first attempt, whatever the previous outcome.
C4_SettleOnDeviceChange ==
    \A i \in DOMAIN reqLog :
        (i > 1 /\ reqLog[i].DeviceId # reqLog[i - 1].DeviceId
               /\ reqLog[i].attempts >= 1) =>
            /\ reqLog[i].settle = SettleSleep
            /\ reqLog[i].firstAttemptAt - reqLog[i].dequeuedAt >= SettleSleep
            /\ reqLog[i].firstAttemptAt - reqLog[i - 1].lastAttemptAt
                   >= SettleSleep

C4_Witness ==
    \E i \in DOMAIN reqLog :
        /\ i > 1
        /\ reqLog[i].DeviceId # reqLog[i - 1].DeviceId
        /\ reqLog[i - 1].succ = 1
        /\ reqLog[i].attempts >= 1
        /\ reqLog[i].firstAttemptAt - reqLog[i - 1].lastAttemptAt
               = SettleSleep

\* C5 (as claimed): when two consecutive dequeued requests address the same
\* device, no sleep lies between the first request's last query attempt and
\* the second request's first query attempt, whatever the first's outcome.
C5_NoSleepOnSameDevice ==
    \A i \in DOMAIN reqLog :
        (i > 1 /\ reqLog[i].DeviceId = reqLog[i - 1].DeviceId
               /\ reqLog[i].attempts >= 1) =>
            reqLog[i].firstAttemptAt - reqLog[i - 1].lastAttemptAt = 0

\* C6: requests are served strictly one at a time: every request dequeued
\* before the current one has had its ControlSnip sent, after a success or
\* after MaxRetryCount attempts, and at most one register read is in flight
\* on the transport, which belongs to the current request.
C6_OneAtATime ==
    /\ \A i \in DOMAIN reqLog :
           i < Len(reqLog) =>
               /\ reqLog[i].done
               /\ ControlOf(i) # {}
               /\ reqLog[i].succ >= 1 \/ reqLog[i].attempts = MaxRetryCount
    /\ Cardinality(inflight) <= 1
    /\ \A r \in inflight :
           /\ r.caller = "Transform"
           /\ pc = "query"
           /\ r.slave = reqLog[CurReq].DeviceId
           /\ ~reqLog[CurReq].done

C6_Witness ==
    /\ Len(reqLog) = 2
    /\ reqLog[1].succ = 0
    /\ reqLog[2].attempts = 3
    /\ inflight # {}

\* ------------------------------------------------------------------------
\* Properties of Scan (checked under ScanSpec)
\* ------------------------------------------------------------------------
ValidAddresses == 1 .. LastScanAddress
Listed == { deviceList[j].DeviceId : j \in DOMAIN deviceList }

\* C7: Scan only probes addresses 1..247: the address handed to a producer's
\* Probe, the slave id set for it and the slave id of a read in flight are
\* never 0 and never above 247.
C7_ProbedAddressesValid ==
    /\ scanPc \in { "range", "dispatch", "query" } =>
           deviceId \in ValidAddresses
    /\ scanPc \in { "dispatch", "query" } => SlaveId \in ValidAddresses
    /\ \A r \in inflight : r.caller = "Scan" => r.slave \in ValidAddresses

C7_Witness ==
    /\ scanPc = "query"
    /\ \E r \in inflight : r.caller = "Scan" /\ r.slave = LastScanAddress

\* C8: the final report is exact: the device list holds exactly the
\* addresses at which a probe succeeded, each once and with the meter type of
\* the producer whose probe succeeded; every other address of 1..247 was
\* logged "n/a" exactly once; the printed count is the length of the list.
C8_ReportExact ==
    /\ Listed \cap { naLog[j] : j \in DOMAIN naLog } = {}
    /\ scanPc = "done" =>
           /\ { deviceList[j] : j \in DOMAIN deviceList } = succeeded
           /\ Listed = { d.DeviceId : d \in succeeded }
           /\ Cardinality(Listed) = Len(deviceList)
           /\ { naLog[j] : j \in DOMAIN naLog } = ValidAddresses \ Listed
           /\ Len(naLog) = LastScanAddress - Cardinality(Listed)
           /\ foundCount = Len(deviceList)

C8_Witness ==
    /\ scanPc = "done"
    /\ deviceList = << [ DeviceId |-> 42, MeterType |-> "JANITZA" ],
                       [ DeviceId |-> 247, MeterType |-> "DZG" ] >>
    /\ foundCount = 2

\* C9: first match in the order SDM, Janitza, DZG: at each address the j-th
\* probe is the j-th producer's, a probe is followed by another probe at the
\* same address only if it failed, and a successful probe's producer is the
\* type recorded for the device.
C9_FirstMatch ==
    /\ Len(probeHere) <= 3
    /\ \A j \in DOMAIN probeHere :
           /\ probeHere[j].producer = j
           /\ j < Len(probeHere) => ~probeHere[j].ok
           /\ probeHere[j].ok =>
                  /\ deviceList # << >>
                  /\ deviceList[Len(deviceList)].MeterType
                         = << "SDM", "JANITZA", "DZG" >>[j]
                  /\ IncDeviceId(deviceList[Len(deviceList)].DeviceId)
                         = deviceId
    /\ scanPc = "query" =>
           /\ prodIdx = Len(probeHere) + 1
           /\ \A j \in DOMAIN probeHere : ~probeHere[j].ok

C9_Witness ==
    /\ Len(probeHere) = 3
    /\ ~probeHere[1].ok /\ ~probeHere[2].ok /\ probeHere[3].ok
    /\ deviceList[Len(deviceList)] = [ DeviceId |-> 42, MeterType |-> "DZG" ]

\* C10: the session timeout is 50 ms from the entry of Scan until its
\* report, every probe is dispatched under 50 ms, and once Scan is done the
\* timeout is again what it was when Scan was entered.
C10_ScopedTimeout ==
    /\ scanPc \in { "SCAN", "range", "dispatch", "query" } =>
           Timeout = ScanTimeout
    /\ \A r \in inflight : r.caller = "Scan" => r.timeout = ScanTimeout
    /\ scanPc = "done" =>
           /\ Timeout = preScanTimeout
           /\ Timeout = ConstructionTimeout

C10_Witness ==
    /\ scanPc = "done"
    /\ Timeout = ConstructionTimeout
    /\ deviceList # << >>
    /\ deviceList[Len(deviceList)].DeviceId = LastScanAddress

\* C11: a malformed request (register count not positive, or function code
\* neither 3 nor 4) is fatal: its first query call ends the process with no
\* register read put on the transport; it is never retried and gets neither
\* a ControlSnip nor a result. The process ends for no other reason.
C11_MalformedIsFatal ==
    /\ \A i \in DOMAIN reqLog :
           ( \/ reqLog[i].snip.ReadLen <= 0
             \/ reqLog[i].snip.FuncCode \notin {3, 4} )
               => /\ i = Len(reqLog)
                  /\ reqLog[i].reads = 0
                  /\ reqLog[i].attempts <= 1
                  /\ ~reqLog[i].done
                  /\ ControlOf(i) = {}
                  /\ ResultsOf(i) = {}
                  /\ pc \in { "pace", "retry", "dispatch", "fatal" }
                  /\ pc = "fatal" <=> aborted
    /\ aborted =>
           /\ inflight = {}
           /\ reqLog # << >>
           /\ reqLog[CurReq].snip.ReadLen <= 0
                  \/ reqLog[CurReq].snip.FuncCode \notin {3, 4}

C11_Witness ==
    /\ aborted
    /\ Len(reqLog) = 2
    /\ reqLog[1].done
    /\ reqLog[2].snip.FuncCode = 6
    /\ reqLog[2].snip.ReadLen = 1
    /\ requestCounter = reqLog[2].rq0 + 1

\* ------------------------------------------------------------------------
\* The RTUTransform functions applied to register payloads
\* ------------------------------------------------------------------------
Bytes16 == { 0, 1, 4, 210, 255 }
Payloads16 == { << a, b >> : a \in Bytes16, b \in Bytes16 }

\* bit patterns of zeros, denormals, normal numbers of both signs,
\* infinities and NaNs
Payloads32 ==
    { << a, b, c, d >> : a \in { 0, 63, 64, 127, 192 },
                         b \in { 0, 80, 128, 200 }, c \in { 0, 1 },
                         d \in { 0, 1 } }

\* unsigned 32 bit readings below 2^31
ScaledPayloads32 ==
    { << a, b, c, d >> : a \in { 0, 1, 64 }, b \in { 0, 18, 80 },
                         c \in { 0, 214 }, d \in { 0, 135 } }

\* scalars handed to the Make...ScaledIntToFloat64 constructors
Scalars == { 0, 1, 10, 1000 }

DecodeRTU16(b) ==
    /\ decFn' = "RTU16ToFloat64"
    /\ decIn' = b
    /\ decScalar' = 1
    /\ decOut' = CallTransform(RTUTransform("RTU16ToFloat64", FZero), b)
    /\ UNCHANGED << engineVars, chanVars, transformVars, scanVars, ctorVars >>

DecodeRTU32(b) ==
    /\ decFn' = "RTU32ToFloat64"
    /\ decIn' = b
    /\ decScalar' = 1
    /\ decOut' = CallTransform(RTUTransform("RTU32ToFloat64", FZero), b)
    /\ UNCHANGED << engineVars, chanVars, transformVars, scanVars, ctorVars >>

DecodeScaled16(b, k) ==
    /\ decFn' = "rtuScaledInt16ToFloat64"
    /\ decIn' = b
    /\ decScalar' = k
    /\ decOut' = CallTransform(
                     MakeRTU16ScaledIntToFloat64(Float64FromUint(k)), b)
    /\ UNCHANGED << engineVars, chanVars, transformVars, scanVars, ctorVars >>

DecodeScaled32(b, k) ==
    /\ decFn' = "rtuScaledInt32ToFloat64"
    /\ decIn' = b
    /\ decScalar' = k
    /\ decOut' = CallTransform(
                     MakeRTU32ScaledIntToFloat64(Float64FromUint(k)), b)
    /\ UNCHANGED << engineVars, chanVars, transformVars, scanVars, ctorVars >>

DecodeNext ==
    \/ \E b \in Payloads16 : DecodeRTU16(b)
    \/ \E b \in Payloads32 : DecodeRTU32(b)
    \/ \E b \in Payloads16 : \E k \in Scalars : DecodeScaled16(b, k)
    \/ \E b \in ScaledPayloads32 : \E k \in Scalars : DecodeScaled32(b, k)

DecodeSpec == Init /\ [][DecodeNext]_vars

\* numerator and denominator of a finite float value as integers
FloatNum(f) == f.num * (2 ^ (IF f.exp > 0 THEN f.exp ELSE 0))
FloatDen(f) == f.den * (2 ^ (IF f.exp < 0 THEN 0 - f.exp ELSE 0))

\* f is the quotient a / k of the natural numbers a and k (IEEE: a / 0 is
\* +Inf for a > 0 and NaN for a = 0)
IsQuotient(f, a, k) ==
    IF k = 0
    THEN /\ f.den = 0
         /\ ~f.neg
         /\ f.num = (IF a = 0 THEN 0 ELSE 1)
    ELSE /\ f.den # 0
         /\ ~f.neg
         /\ \E g \in 1 .. k : g * FloatDen(f) = k /\ g * FloatNum(f) = a

\* f is the value of the IEEE-754 single with the given sign bit, biased
\* exponent e and 23 bit fraction m
IsSingle(f, sign, e, m) ==
    IF e = 255
    THEN /\ f.den = 0
         /\ f.num = (IF m = 0 THEN 1 ELSE 0)
         /\ m = 0 => f.neg = (sign = 1)
    ELSE IF e = 0 /\ m = 0
    THEN f.num = 0 /\ f.den = 1 /\ f.neg = (sign = 1)
    ELSE LET bias == IF e = 0 THEN 149 ELSE 150 - e
             sig == IF e = 0 THEN m ELSE 8388608 + m
         IN /\ f.neg = (sign = 1)
            /\ f.den = 1
            /\ f.exp + bias \in 0 .. 23
            /\ f.num * (2 ^ (f.exp + bias)) = sig

\* C12: the 16 bit decode of a 2-byte payload b is 256*b[0] + b[1] and the
\* scaled 16 bit decode is that integer divided by the scalar (the bytes of
\* 1234 with scalar 10 give 123.4 = 617/5); the scaled 32 bit decode of a
\* 4-byte payload is its big-endian unsigned integer divided by the scalar,
\* and the raw 32 bit decode is the value of the IEEE-754 single whose bit
\* pattern is that word (the bytes of 3.25 give 3.25 = 13 * 2^-2 exactly).
C12_RegisterDecoding ==
    /\ decFn = "RTU16ToFloat64" =>
           IsQuotient(decOut, 256 * decIn[1] + decIn[2], 1)
    /\ decFn = "rtuScaledInt16ToFloat64" =>
           /\ IsQuotient(decOut, 256 * decIn[1] + decIn[2], decScalar)
           /\ (decIn = << 4, 210 >> /\ decScalar = 10) =>
                  decOut = [ neg |-> FALSE, num |-> 617, den |-> 5,
                             exp |-> 0 ]
    /\ decFn = "rtuScaledInt32ToFloat64" =>
           IsQuotient(decOut,
                      16777216 * decIn[1] + 65536 * decIn[2]
                          + 256 * decIn[3] + decIn[4],
                      decScalar)
    /\ decFn = "RTU32ToFloat64" =>
           /\ IsSingle(decOut, decIn[1] \div 128,
                       2 * (decIn[1] % 128) + decIn[2] \div 128,
                       65536 * (decIn[2] % 128) + 256 * decIn[3] + decIn[4])
           /\ decIn = << 64, 80, 0, 0 >> =>
                  decOut = [ neg |-> FALSE, num |-> 13, den |-> 1,
                             exp |-> -2 ]

C12_Witness ==
    /\ decFn = "rtuScaledInt16ToFloat64"
    /\ decIn = << 4, 210 >>
    /\ decScalar = 10
    /\ decOut = [ neg |-> FALSE, num |-> 617, den |-> 5, exp |-> 0 ]

\* ------------------------------------------------------------------------
\* Further properties of Transform (checked under Spec)
\* ------------------------------------------------------------------------
\* C13: every query call raises the request counter by exactly one and puts
\* at most one register read on the transport; a request served on attempt k
\* took exactly k query calls (none after the success) and raised the
\* counter by k, a request never served took exactly MaxRetryCount calls.
C13_RetryBudget ==
    \A i \in DOMAIN reqLog :
        /\ reqLog[i].reads <= reqLog[i].attempts
        /\ reqLog[i].attempts <= MaxRetryCount
        /\ i = Len(reqLog) =>
               requestCounter - reqLog[i].rq0 = reqLog[i].attempts
        /\ i < Len(reqLog) => reqLog[i + 1].rq0 = reqLog[i].rqEnd
        /\ reqLog[i].succ >= 1 => reqLog[i].attempts = reqLog[i].succ
        /\ reqLog[i].done =>
               /\ reqLog[i].rqEnd - reqLog[i].rq0 = reqLog[i].attempts
               /\ reqLog[i].reads = reqLog[i].attempts
               /\ reqLog[i].succ = 0 => reqLog[i].attempts = MaxRetryCount

C13_Witness ==
    /\ Len(reqLog) = 2
    /\ reqLog[1].done /\ reqLog[1].succ = 0
    /\ reqLog[2].done /\ reqLog[2].succ = 3
    /\ requestCounter = MaxRetryCount + 3

\* C14: the snips sent on the output stream are exactly the requests with a
\* successful attempt, each once and in dequeue order, each the dequeued
\* snip with the value of its own transform on the payload of that attempt
\* (device 1: the plain 16 bit value, device 2: that value divided by 10);
\* an exhausted request is neither sent on nor put back on the input stream.
C14_ResultConservation ==
    /\ enqueued = Len(inputStream) + Len(reqLog)
    /\ \A j \in DOMAIN outLog :
           LET i == outLog[j].req
               out == outLog[j].snip
           IN /\ i \in DOMAIN reqLog
              /\ reqLog[i].succ >= 1
              /\ j > 1 => outLog[j - 1].req < i
              /\ [ out EXCEPT !.Value = FZero, !.ReadTimestamp = 0 ]
                     = reqLog[i].snip
              /\ IsQuotient(out.Value,
                            256 * reqLog[i].payload[1] + reqLog[i].payload[2],
                            IF out.DeviceId = 2 THEN 10 ELSE 1)
    /\ \A i \in DOMAIN reqLog :
           reqLog[i].done =>
               Cardinality(ResultsOf(i)) = (IF reqLog[i].succ >= 1 THEN 1
                                            ELSE 0)

C14_Witness ==
    /\ Len(reqLog) = 2
    /\ reqLog[1].done /\ reqLog[1].succ = 0
    /\ reqLog[2].done /\ reqLog[2].payload = << 4, 210 >>
    /\ Len(outLog) = 1
    /\ outLog[1].req = 2
    /\ outLog[1].snip.DeviceId = 2
    /\ outLog[1].snip.Value = [ neg |-> FALSE, num |-> 617, den |-> 5,
                                exp |-> 0 ]
    /\ inputStream = << >>

\* C20: the completed snip is sent on the output stream before the OK
\* ControlSnip: there are never more OK ControlSnips than results, every OK
\* ControlSnip belongs to a request whose result was sent, and while a
\* result is still unsent its request has no ControlSnip.
C20_ResultBeforeStatus ==
    /\ Cardinality({ j \in DOMAIN controlLog :
                       controlLog[j].snip.Type = CONTROLSNIP_OK })
           <= Len(outLog)
    /\ \A j \in DOMAIN controlLog :
           controlLog[j].snip.Type = CONTROLSNIP_OK =>
               ResultsOf(controlLog[j].req) # {}
    /\ \A i \in DOMAIN reqLog :
           (reqLog[i].succ >= 1 /\ ResultsOf(i) = {}) => ControlOf(i) = {}

C20_Witness ==
    /\ pc = "signal_ok"
    /\ Len(outLog) = 2
    /\ Len(controlLog) = 1
    /\ controlLog[1].snip.Type = CONTROLSNIP_OK
    /\ Len(controlStream) = ChanCap

\* ------------------------------------------------------------------------
\* Scan and Transform driven at the same time on one engine
\* ------------------------------------------------------------------------
\* the requests a caller sends while a scan runs
ConcSnips == { QuerySnip(2, ReadHoldingReg, 1) }

\* the producer side, bounded for the concurrent runs
ConcEnqueue(s) ==
    /\ enqueued < MaxConcRequests
    /\ Enqueue(s)

\* the address loop of Scan, followed for its first addresses
ConcScanNextAddress ==
    /\ deviceId <= MaxConcAddress
    /\ ScanNextAddress

ConcNext ==
    \/ TransformDequeue
    \/ TransformPace
    \/ TransformQuery
    \/ TransformDispatch
    \/ \E reading \in Payloads : TransformReadOk(reading)
    \/ TransformReadErr
    \/ TransformForward
    \/ TransformSignalOk
    \/ TransformBackoff
    \/ TransformSignalError
    \/ \E s \in ConcSnips : ConcEnqueue(s)
    \/ TakeOutput
    \/ TakeControl
    \/ ScanStart
    \/ ConcScanNextAddress
    \/ ScanProbe
    \/ ScanDispatch
    \/ ScanProbeOk
    \/ ScanProbeErr
    \/ ScanNotAvailable

ConcSpec == Init /\ [][ConcNext]_vars

\* C15: the engine has no mutual exclusion between Scan and Transform: a
\* caller that reached the register read of query is never held back by a
\* read of the other caller, so the reads in flight are exactly those of the
\* callers inside a read, up to two at once; a single read in flight is
\* guaranteed only while one of the two is not running.
C15_NoMutualExclusion ==
    /\ (pc = "dispatch" /\ ~aborted) => ENABLED TransformDispatch
    /\ (scanPc = "dispatch" /\ ~aborted) => ENABLED ScanDispatch
    /\ \A r \in inflight :
           /\ r.caller = "Transform" => pc = "query"
           /\ r.caller = "Scan" => scanPc = "query"
    /\ Cardinality(inflight) = (IF pc = "query" THEN 1 ELSE 0)
                                   + (IF scanPc = "query" THEN 1 ELSE 0)
    /\ (scanPc = "idle" \/ pc = "PROCESS_READINGS") =>
           Cardinality(inflight) <= 1

\* a probe and a query in flight together, the query sent to the slave id
\* that Scan wrote and under the timeout that Scan set
C15_Witness ==
    /\ Cardinality(inflight) = 2
    /\ \E r \in inflight :
           /\ r.caller = "Transform"
           /\ r.slave # snip.DeviceId
           /\ r.timeout = ScanTimeout

\* ------------------------------------------------------------------------
\* Progress of Transform
\* ------------------------------------------------------------------------
\* Transform holds a well-formed request that it has not finished
Serving == pc # "PROCESS_READINGS" /\ snip \in WellFormedSnips

\* the consumer of the result queue, resp. of both queues, keeps taking
ResultsDrained == WF_vars(TakeOutput)
BothDrained == WF_vars(TakeOutput) /\ WF_vars(TakeControl)

\* C16 as stated: the result queue is the only outbound path that can
\* stall the worker, so with the result queue drained Transform always
\* returns to the dequeue, whatever the consumer of the status queue does.
C16_OnlyResultQueueStalls ==
    ResultsDrained => [](Serving => <>(pc = "PROCESS_READINGS"))

\* C16: both outbound queues can stall the worker, through the sends
\* outputStream <- snip and controlStream <- successSnip / errorSnip: with
\* both queues drained Transform always returns to the dequeue.
C16_BothQueuesStall ==
    BothDrained => [](Serving => <>(pc = "PROCESS_READINGS"))

\* Transform waits at the send of a ControlSnip on a full status queue
\* while the result queue is empty
C16_Witness ==
    /\ pc \in { "signal_ok", "signal_error" }
    /\ Len(controlStream) = ChanCap
    /\ Len(outputStream) = 0
    /\ ~ ENABLED TransformStep

\* the request last dequeued has its ControlSnip, within the retry budget,
\* as has every request before it, and Transform is back at the dequeue
Settled ==
    /\ pc = "PROCESS_READINGS"
    /\ Len(controlLog) = Len(reqLog)
    /\ \A i \in 1 .. Len(reqLog) :
           /\ reqLog[i].done
           /\ reqLog[i].attempts <= MaxRetryCount
           /\ controlLog[i].req = i

\* C17: with both outbound queues drained, every well-formed request that
\* Transform dequeued gets its ControlSnip after at most MaxRetryCount
\* attempts and the loop is back at the dequeue, after an ERROR ControlSnip
\* as after an OK one, and the request queue is emptied again and again
\* unless a malformed request ended the process.
C17_ProgressAfterFailure ==
    BothDrained =>
        /\ [](Serving => <>Settled)
        /\ []<>(Len(inputStream) = 0 \/ aborted)

\* a request was given up after MaxRetryCount failed attempts, its ERROR
\* ControlSnip is out and the next request has been dequeued
C17_Witness ==
    /\ Len(reqLog) >= 2
    /\ reqLog[1].done
    /\ reqLog[1].succ = 0
    /\ reqLog[1].attempts = MaxRetryCount
    /\ controlLog[1].snip.Type = CONTROLSNIP_ERROR

\* ------------------------------------------------------------------------
\* Termination of Scan (checked under ScanLiveSpec)
\* ------------------------------------------------------------------------
\* the addresses Scan has finished, and the number of addresses it entered
Finished == Listed \cup { naLog[j] : j \in DOMAIN naLog }
Entered ==
    CASE scanPc = "idle" -> 0
      [] scanPc \in { "range", "dispatch", "query" } -> deviceId
      [] OTHER -> deviceId - 1

\* the addresses are taken once each and in ascending order, one settle
\* delay per address entered, at most one probe per producer
ScanOrder ==
    /\ Finished = 1 .. (Len(naLog) + Len(deviceList))
    /\ Finished \subseteq ValidAddresses
    /\ Listed \cap { naLog[j] : j \in DOMAIN naLog } = {}
    /\ \A j \in 1 .. Len(naLog) - 1 : naLog[j] < naLog[j + 1]
    /\ \A j \in 1 .. Len(deviceList) - 1 :
           deviceList[j].DeviceId < deviceList[j + 1].DeviceId
    /\ scanPc # "idle" => Len(naLog) + Len(deviceList) = deviceId - 1
    /\ scanPc \in { "range", "dispatch", "query" } =>
           deviceId \in ValidAddresses \ Finished
    /\ now = ScanSleep * Entered
    /\ Len(probeHere) <= Len(producers)
    /\ scanPc \in { "dispatch", "query" } => Len(probeHere) < Len(producers)

\* C18: Scan terminates whatever the probes return: it takes the addresses
\* 1..247 once each in ascending order, sleeps 40 ms once per address before
\* the first probe there, makes at most one probe per producer at an
\* address, the address counter never steps back, and the report is reached
\* with all of 1..247 taken.
C18_ScanTerminates ==
    /\ []ScanOrder
    /\ [][deviceId' >= deviceId]_vars
    /\ <>(scanPc = "done" /\ Finished = ValidAddresses)

\* the report is reached after 247 settle delays, with devices found and
\* addresses given up after a probe of every producer
C18_Witness ==
    /\ scanPc = "done"
    /\ Finished = ValidAddresses
    /\ now = ScanSleep * LastScanAddress
    /\ Len(deviceList) >= 2
    /\ Len(probeHere) = Len(producers)
    /\ deviceId = LastScanAddress + 1

\* ------------------------------------------------------------------------
\* NewModbusEngine
\* ------------------------------------------------------------------------
\* the arguments of NewModbusEngine
RtuDevices == { "/dev/ttyUSB0", "/dev/ttyUSB1", "/dev/ttyS0" }
Comsets == 0 .. 7

\* the cases of switch comset
ValidComsets ==
    { ModbusComset2400_8N1, ModbusComset9600_8N1, ModbusComset19200_8N1,
      ModbusComset2400_8E1, ModbusComset9600_8E1, ModbusComset19200_8E1 }
ComsetBaudRate(comset) ==
    CASE comset \in { ModbusComset2400_8N1, ModbusComset2400_8E1 } -> 2400
      [] comset \in { ModbusComset9600_8N1, ModbusComset9600_8E1 } -> 9600
      [] OTHER -> 19200
ComsetParity(comset) ==
    IF comset \in { ModbusComset2400_8N1, ModbusComset9600_8N1,
                    ModbusComset19200_8N1 }
    THEN "N" ELSE "E"

\* rtuclient := modbus.NewRTUClientHandler(rtuDevice), before the switch
NewRTUClientHandler(rtuDevice) ==
    [ Address |-> rtuDevice, BaudRate |-> 0, DataBits |-> 0, Parity |-> "",
      StopBits |-> 0, Logger |-> FALSE ]

\* the handler after the switch and the verbose branch
ConfiguredHandler(rtuDevice, comset, verbose) ==
    [ Address |-> rtuDevice, BaudRate |-> ComsetBaudRate(comset),
      DataBits |-> 8, Parity |-> ComsetParity(comset), StopBits |-> 1,
      Logger |-> verbose ]

\* the state in which NewModbusEngine is entered: no handler, no link
ConstructInit ==
    /\ SlaveId = 0
    /\ Timeout = 0
    /\ requestCounter = 0
    /\ reconnectCounter = 0
    /\ aborted = FALSE
    /\ inflight = {}
    /\ now = 0
    /\ inputStream = << >>
    /\ outputStream = << >>
    /\ controlStream = << >>
    /\ pc = "PROCESS_READINGS"
    /\ snip = NoSnip
    /\ previousDeviceId = 0
    /\ retryCount = 0
    /\ enqueued = 0
    /\ reqLog = << >>
    /\ controlLog = << >>
    /\ outLog = << >>
    /\ lastAttemptAt = 0
    /\ scanPc = "idle"
    /\ deviceId = 0
    /\ prodIdx = 0
    /\ deviceList = << >>
    /\ oldtimeout = 0
    /\ foundCount = -1
    /\ naLog = << >>
    /\ probeHere = << >>
    /\ succeeded = {}
    /\ preScanTimeout = 0
    /\ ctorPc = "new"
    /\ rtuclient = NewRTUClientHandler("")
    /\ connected = FALSE
    /\ decFn = "none"
    /\ decIn = << >>
    /\ decScalar = 0
    /\ decOut = FZero

ctorRest == << decodeVars, SlaveId, requestCounter, reconnectCounter,
               inflight, now, chanVars, transformVars, scanVars >>

\* the handler, the switch over comset, the timeout and the verbose branch;
\* the default case ends the process
NewConfigure(rtuDevice, comset, verbose) ==
    /\ ctorPc = "new"
    /\ IF comset \in ValidComsets
       THEN /\ rtuclient' = ConfiguredHandler(rtuDevice, comset, verbose)
            /\ Timeout' = ConstructionTimeout
            /\ aborted' = aborted
            /\ ctorPc' = "connect"
       ELSE /\ rtuclient' = NewRTUClientHandler(rtuDevice)
            /\ Timeout' = Timeout
            /\ aborted' = TRUE
            /\ ctorPc' = "fatal"
    /\ UNCHANGED << connected, ctorRest >>

\* err := rtuclient.Connect() with err == nil; defer rtuclient.Close() is
\* registered
NewConnectOk ==
    /\ ctorPc = "connect"
    /\ connected' = TRUE
    /\ ctorPc' = "connected"
    /\ UNCHANGED << rtuclient, Timeout, aborted, ctorRest >>

\* err != nil: log.Fatal("Failed to connect: ", err)
NewConnectFail ==
    /\ ctorPc = "connect"
    /\ aborted' = TRUE
    /\ ctorPc' = "fatal"
    /\ UNCHANGED << rtuclient, connected, Timeout, ctorRest >>

\* mbclient := modbus.NewClient(rtuclient); return &ModbusEngine{...}: the
\* deferred rtuclient.Close() runs as the function returns
NewReturn ==
    /\ ctorPc = "connected"
    /\ connected' = FALSE
    /\ ctorPc' = "returned"
    /\ UNCHANGED << rtuclient, Timeout, aborted, ctorRest >>

ConstructNext ==
    \/ \E rtuDevice \in RtuDevices, comset \in Comsets, verbose \in BOOLEAN :
           NewConfigure(rtuDevice, comset, verbose)
    \/ NewConnectOk
    \/ NewConnectFail
    \/ NewReturn

ConstructSpec == ConstructInit /\ [][ConstructNext]_vars

\* C19: NewModbusEngine either ends the process (comset not one of the six
\* presets, or Connect failed) or returns an engine whose link, connected
\* during construction, is still connected when the engine is returned.
C19_ReturnedLinkOpen ==
    /\ aborted <=> ctorPc = "fatal"
    /\ ctorPc = "returned" =>
           /\ connected
           /\ rtuclient.BaudRate \in { 2400, 9600, 19200 }
           /\ Timeout = ConstructionTimeout

====
